---- MODULE Spec2Model ----
(***************************************************************************)
(* A model of the broadcast server's Redis-protocol session loop           *)
(* (RedisProtocol.RunClient / handleData) and of the stats backend         *)
(* (StatsBackend handlers, Load / Unload and the background flush task).   *)
(*                                                                         *)
(* Byte strings are sequences of ASCII codes, so that strings.ToUpper is   *)
(* a computation and not the identity.  Every session is one goroutine     *)
(* running RunClient; a step of the model is the code between two points   *)
(* where the goroutine can block (the read of a frame, a send on the       *)
(* events channel) or where another goroutine can observe it.              *)
(***************************************************************************)
EXTENDS Integers, Sequences, FiniteSets, TLC

\* ------------------------------------------------------------------ bounds
\* Number of concurrently running sessions (connections).
NumSessions == 2
\* Capacity of the events channel p.ctx.Events (made by the server
\* package; whatever it is, a Go channel send blocks once it is full).
EventsCap == 1
\* Number of Load calls the host makes at most.
MaxLoads == 2
\* Largest absolute value a stored number reaches.
MaxVal == 3

Sessions == 1..NumSessions
\* The goroutines Load can start, and the generations of its channels.
Tasks == 1..MaxLoads
Gens == 0..MaxLoads

VARIABLES
    Commands,   \* p.ctx.Commands: upper-case command name -> handler
    sess,       \* sess[s]: the goroutine running RunClient for connection s
                \*   pc      where it is in RunClient
                \*   inp     what the peer sent before the last read
                \*   data    the payload the last ReadBulkPayload returned
                \*   perr    the error it is about to report
                \*   client  [buf, sent]: the connection's writer; sent holds
                \*           what was flushed since the last frame was read
                \*   evs     events it sent since the last frame was read
                \*   called  handler invoked for the current request
                \*   hret    what that handler did: "nil", "err" or "panic"
                \*   herr    the error that handler returned
                \*   closes  number of client.Close() calls
                \*   how     why RunClient returned
    events,     \* the buffer of the channel p.ctx.Events
    crashed,    \* the process died of a panic nothing recovered
    values,     \* MemoryBackend: the value store
    counters,   \* MemoryBackend: the interval counters
    cur,        \* number of Load calls so far: stats.quit and stats.timer
                \*   are the channels of generation cur
    quit,       \* quit[g]: quit channel of generation g: "nil", "open",
                \*   "closed"
    timer,      \* timer[g]: ticker of generation g: "nil", "running",
                \*   "stopped"
    tickC,      \* tickC[g]: that ticker's channel holds a tick (capacity 1)
    task,       \* task[i]: the goroutine the i-th Load started
    call        \* the last direct call of a stats handler: h the handler,
                \*   arg its data, and what it returned and wrote

memVars  == <<values, counters>>
lifeVars == <<cur, quit, timer, tickC, task>>
vars == <<Commands, sess, events, crashed, values, counters,
          cur, quit, timer, tickC, task, call>>

\* ------------------------------------------------------------- byte strings
QUIT == <<81, 85, 73, 84>>
GET  == <<71, 69, 84>>
PING == <<80, 73, 78, 71>>
FOO  == <<70, 79, 79>>
KeyK == <<107>>
SET      == <<83, 69, 84>>
SETNX    == <<83, 69, 84, 78, 88>>
EXISTS   == <<69, 88, 73, 83, 84, 83>>
DEL      == <<68, 69, 76>>
INCR     == <<73, 78, 67, 82>>
DECR     == <<68, 69, 67, 82>>
COUNT    == <<67, 79, 85, 78, 84>>
COUNTERS == <<67, 79, 85, 78, 84, 69, 82, 83>>
\* The decimal digit a client sends for the number 2.
Two == <<50>>

\* The spellings of QUIT a client may send.
QuitSpellings == {QUIT, <<113, 117, 105, 116>>, <<81, 117, 73, 116>>}

\* strings.ToUpper on ASCII bytes: a..z map to A..Z, every other byte to
\* itself.
ToUpperByte(b) == IF b >= 97 /\ b <= 122 THEN b - 32 ELSE b

ToUpper(str) == [i \in DOMAIN str |-> ToUpperByte(str[i])]

\* ------------------------------------------------------------------- errors
NoErr          == "nil"
EOF            == "EOF"
errCmdNotFound == "invalid command format"
errQuit        == "client quit"
ErrProtocol    == "protocol error"
ErrNotFound    == "not found"
ErrHandler     == "handler failed"
ErrGetArity    == "GET takes at least 1 parameter (i.e. key to get)"
ErrSetArity    == "SET takes at least 2 parameters (i.e. key to set and value to set to)"
ErrSetNxArity  == "SETNX takes at least 2 parameters (i.e. key to set and value to set to, if not already set)"
ErrExistsArity == "EXISTS takes at least 1 parameter (i.e. key to find)"
ErrDelArity    == "DEL takes at least 1 parameter (i.e. key to delete)"
ErrIncrArity   == "INCR takes at least 1 parameter (i.e. key to increment)"
ErrDecrArity   == "DECR takes at least 1 parameter (i.e. key to increment)"
ErrCountArity  == "COUNTER takes at least 1 parameter (i.e. key to increment)"

\* ------------------------------------------------------------------ replies
IntReply(i)  == [t |-> "int", v |-> i, s |-> "", m |-> <<>>]
StrReply(x)  == [t |-> "str", v |-> 0, s |-> x, m |-> <<>>]
ErrReply(e)  == [t |-> "err", v |-> 0, s |-> e, m |-> <<>>]
JsonReply(m) == [t |-> "json", v |-> 0, s |-> "", m |-> m]

NewClient == [buf |-> <<>>, sent |-> <<>>]

WriteInt64(c, i)  == [c EXCEPT !.buf = Append(@, IntReply(i))]
WriteString(c, x) == [c EXCEPT !.buf = Append(@, StrReply(x))]
WriteError(c, e)  == [c EXCEPT !.buf = Append(@, ErrReply(e))]
WriteJson(c, m)   == [c EXCEPT !.buf = Append(@, JsonReply(m))]
Flush(c)          == [buf |-> <<>>, sent |-> c.sent \o c.buf]

\* ------------------------------------------------------------------- events
Event(level, msg, err) == [level |-> level, msg |-> msg, err |-> err]

\* A send on p.ctx.Events can proceed only while the channel has room.
CanSend == Len(events) < EventsCap

\* ------------------------------------------------------------ wire decoding
\* What the peer puts on the connection before the next ReadBulkPayload.
Frames == {<<QUIT>>, <<<<113, 117, 105, 116>>>>, <<<<81, 117, 73, 116>>>>,
           <<FOO>>, <<<<103, 101, 116>>, KeyK>>,
           <<<<112, 105, 110, 103>>>>, <<COUNT, KeyK, Two>>}

WireInputs ==
    [k : {"frame"}, elems : Frames \cup {<<>>}]
        \cup {[k |-> x, elems |-> <<>>] : x \in {"eof", "malformed", "fault"}}

\* Requests for the commands of the stats backend: one with its arguments
\* and one with too few of them for every command that takes any.
StatsFrames ==
    {<<SET, KeyK, Two>>, <<SET, KeyK>>, <<SETNX, KeyK, Two>>, <<SETNX>>,
     <<GET, KeyK>>, <<GET>>, <<EXISTS>>, <<DEL>>,
     <<INCR, KeyK>>, <<INCR>>, <<DECR, KeyK, Two>>, <<DECR>>,
     <<COUNT, KeyK>>, <<COUNT>>, <<COUNTERS>>}

StatsInputs == [k : {"frame"}, elems : StatsFrames]

\* ReadBulkPayload: one complete frame, the end of the stream, or a decode
\* error; a frame of zero elements is a malformed frame.
ReadBulkPayload(in) ==
    CASE in.k = "eof"       -> [data |-> <<>>, err |-> EOF, panics |-> FALSE]
      [] in.k = "malformed" -> [data |-> <<>>, err |-> ErrProtocol, panics |-> FALSE]
      [] in.k = "fault"     -> [data |-> <<>>, err |-> NoErr, panics |-> TRUE]
      [] OTHER -> IF Len(in.elems) = 0
                  THEN [data |-> <<>>, err |-> ErrProtocol, panics |-> FALSE]
                  ELSE [data |-> in.elems, err |-> NoErr, panics |-> FALSE]

\* ------------------------------------------------------------ memory backend
\* The store behind the Metrics interface.  Every operation is atomic: it
\* reads and writes the maps under the store's own lock.  An operation
\* yields the int and the error of the Go method and the map it leaves.
Lookup(m, key) == IF key \in DOMAIN m THEN m[key] ELSE 0

Put(m, key, v) == [k \in DOMAIN m \cup {key} |-> IF k = key THEN v ELSE m[k]]

MemGet(vals, key) ==
    IF key \in DOMAIN vals
    THEN [i |-> vals[key], err |-> NoErr]
    ELSE [i |-> 0, err |-> ErrNotFound]

MemSet(vals, key, v) == [i |-> v, err |-> NoErr, m |-> Put(vals, key, v)]

MemSetNx(vals, key, v) ==
    IF key \in DOMAIN vals
    THEN [i |-> 0, err |-> NoErr, m |-> vals]
    ELSE [i |-> 1, err |-> NoErr, m |-> Put(vals, key, v)]

MemExists(vals, key) ==
    [i |-> IF key \in DOMAIN vals THEN 1 ELSE 0, err |-> NoErr]

MemDel(vals, key) ==
    IF key \in DOMAIN vals
    THEN [i |-> 1, err |-> NoErr,
          m |-> [k \in DOMAIN vals \ {key} |-> vals[k]]]
    ELSE [i |-> 0, err |-> NoErr, m |-> vals]

MemIncrBy(vals, key, n) ==
    [i |-> Lookup(vals, key) + n, err |-> NoErr,
     m |-> Put(vals, key, Lookup(vals, key) + n)]

MemIncr(vals, key) == MemIncrBy(vals, key, 1)

MemDecrBy(vals, key, n) ==
    [i |-> Lookup(vals, key) - n, err |-> NoErr,
     m |-> Put(vals, key, Lookup(vals, key) - n)]

MemDecr(vals, key) == MemDecrBy(vals, key, 1)

MemCounterBy(ctrs, key, n) ==
    [i |-> Lookup(ctrs, key) + n, err |-> NoErr,
     m |-> Put(ctrs, key, Lookup(ctrs, key) + n)]

MemCounter(ctrs, key) == MemCounterBy(ctrs, key, 1)

MemCounters(ctrs) == [m |-> ctrs, err |-> NoErr]

\* ------------------------------------------------------------ stats handlers
\* The elements of a []interface{}: a Go string or an int64.
Str(x) == [t |-> "string", s |-> x, n |-> 0]
I64(n) == [t |-> "int64", s |-> <<>>, n |-> n]

\* What a handler call leaves behind: what it returned (nil, an error, or a
\* panic) and the client it wrote to.
Returned(err, c) ==
    [ret |-> IF err = NoErr THEN "nil" ELSE "err", err |-> err, c |-> c]
Panicked(c) == [ret |-> "panic", err |-> NoErr, c |-> c]

\* A handler's outcome o together with the store it leaves.
Done(o, vals, ctrs) ==
    [ret |-> o.ret, err |-> o.err, c |-> o.c, vals |-> vals, ctrs |-> ctrs]

\* data.([]interface{}) with the comma-ok form: the elements when the
\* dynamic type is []interface{}, the nil slice for any other type.
AsInterfaceSlice(arg) == IF arg.form = "iface" THEN arg.elems ELSE <<>>

FlushInt(i, err, c) ==
    IF err # NoErr
    THEN Returned(err, c)
    ELSE Returned(NoErr, Flush(WriteInt64(c, i)))

\* Mutant of ArityError: the error is written and also returned.
ArityError_AlsoReturned(msg, c, vals, ctrs) ==
    Done(Returned(msg, Flush(WriteError(c, msg))), vals, ctrs)

\* The arity error a handler writes itself, returning nil.
ArityError(msg, c, vals, ctrs) ==
    Done(Returned(NoErr, Flush(WriteError(c, msg))), vals, ctrs)

\* d[0].(string), d[1].(int64): assertions without the comma-ok form panic
\* when the dynamic type is another one.
IsString(x) == x.t = "string"
IsInt64(x)  == x.t = "int64"

\* Mutant of Set: the arity check admits a single argument.
Set_ArityOffByOne(arg, c, vals, ctrs) ==
    LET d == AsInterfaceSlice(arg) IN
    IF Len(d) < 1
    THEN ArityError(ErrSetArity, c, vals, ctrs)
    ELSE IF Len(d) < 2 \/ ~IsString(d[1]) \/ ~IsInt64(d[2])
         THEN Done(Panicked(c), vals, ctrs)
         ELSE LET r == MemSet(vals, d[1].s, d[2].n)
              IN  Done(FlushInt(r.i, r.err, c), r.m, ctrs)

Set(arg, c, vals, ctrs) ==
    LET d == AsInterfaceSlice(arg) IN
    IF Len(d) < 2
    THEN ArityError(ErrSetArity, c, vals, ctrs)
    ELSE IF ~IsString(d[1]) \/ ~IsInt64(d[2])
         THEN Done(Panicked(c), vals, ctrs)
         ELSE LET r == MemSet(vals, d[1].s, d[2].n)
              IN  Done(FlushInt(r.i, r.err, c), r.m, ctrs)

SetNx(arg, c, vals, ctrs) ==
    LET d == AsInterfaceSlice(arg) IN
    IF Len(d) < 2
    THEN ArityError(ErrSetNxArity, c, vals, ctrs)
    ELSE IF ~IsString(d[1]) \/ ~IsInt64(d[2])
         THEN Done(Panicked(c), vals, ctrs)
         ELSE LET r == MemSetNx(vals, d[1].s, d[2].n)
              IN  Done(FlushInt(r.i, r.err, c), r.m, ctrs)

Get(arg, c, vals, ctrs) ==
    LET d == AsInterfaceSlice(arg) IN
    IF Len(d) = 0
    THEN ArityError(ErrGetArity, c, vals, ctrs)
    ELSE IF ~IsString(d[1])
         THEN Done(Panicked(c), vals, ctrs)
         ELSE LET r == MemGet(vals, d[1].s)
              IN  Done(FlushInt(r.i, r.err, c), vals, ctrs)

Exists(arg, c, vals, ctrs) ==
    LET d == AsInterfaceSlice(arg) IN
    IF Len(d) = 0
    THEN ArityError(ErrExistsArity, c, vals, ctrs)
    ELSE IF ~IsString(d[1])
         THEN Done(Panicked(c), vals, ctrs)
         ELSE LET r == MemExists(vals, d[1].s)
              IN  Done(FlushInt(r.i, r.err, c), vals, ctrs)

Del(arg, c, vals, ctrs) ==
    LET d == AsInterfaceSlice(arg) IN
    IF Len(d) = 0
    THEN ArityError(ErrDelArity, c, vals, ctrs)
    ELSE IF ~IsString(d[1])
         THEN Done(Panicked(c), vals, ctrs)
         ELSE LET r == MemDel(vals, d[1].s)
              IN  Done(FlushInt(r.i, r.err, c), r.m, ctrs)

Incr(arg, c, vals, ctrs) ==
    LET d == AsInterfaceSlice(arg) IN
    IF Len(d) = 0
    THEN ArityError(ErrIncrArity, c, vals, ctrs)
    ELSE IF ~IsString(d[1])
         THEN Done(Panicked(c), vals, ctrs)
         ELSE IF Len(Tail(d)) > 0
              THEN IF ~IsInt64(d[2])
                   THEN Done(Panicked(c), vals, ctrs)
                   ELSE LET r == MemIncrBy(vals, d[1].s, d[2].n)
                        IN  Done(FlushInt(r.i, r.err, c), r.m, ctrs)
              ELSE LET r == MemIncr(vals, d[1].s)
                   IN  Done(FlushInt(r.i, r.err, c), r.m, ctrs)

Decr(arg, c, vals, ctrs) ==
    LET d == AsInterfaceSlice(arg) IN
    IF Len(d) = 0
    THEN ArityError(ErrDecrArity, c, vals, ctrs)
    ELSE IF ~IsString(d[1])
         THEN Done(Panicked(c), vals, ctrs)
         ELSE IF Len(Tail(d)) > 0
              THEN IF ~IsInt64(d[2])
                   THEN Done(Panicked(c), vals, ctrs)
                   ELSE LET r == MemDecrBy(vals, d[1].s, d[2].n)
                        IN  Done(FlushInt(r.i, r.err, c), r.m, ctrs)
              ELSE LET r == MemDecr(vals, d[1].s)
                   IN  Done(FlushInt(r.i, r.err, c), r.m, ctrs)

Count(arg, c, vals, ctrs) ==
    LET d == AsInterfaceSlice(arg) IN
    IF Len(d) = 0
    THEN ArityError(ErrCountArity, c, vals, ctrs)
    ELSE IF ~IsString(d[1])
         THEN Done(Panicked(c), vals, ctrs)
         ELSE IF Len(Tail(d)) > 0
              THEN IF ~IsInt64(d[2])
                   THEN Done(Panicked(c), vals, ctrs)
                   ELSE LET r == MemCounterBy(ctrs, d[1].s, d[2].n)
                        IN  Done(FlushInt(r.i, r.err, c), vals, r.m)
              ELSE LET r == MemCounter(ctrs, d[1].s)
                   IN  Done(FlushInt(r.i, r.err, c), vals, r.m)

Counters(arg, c, vals, ctrs) ==
    LET r == MemCounters(ctrs) IN
    IF r.err # NoErr
    THEN Done(Returned(NoErr, Flush(WriteError(c, r.err))), vals, ctrs)
    ELSE Done(Returned(NoErr, Flush(WriteJson(c, r.m))), vals, ctrs)

\* A handler registered by some other backend: it replies and returns nil,
\* returns an error, or panics.
AnyHandler(arg, c) ==
    {Returned(NoErr, Flush(WriteString(c, "PONG"))),
     Returned(ErrHandler, c),
     Panicked(c)}

\* The handlers RegisterBackend registers, by command name.
StatsCommands ==
    (COUNT :> "stats.Count") @@ (COUNTERS :> "stats.Counters")
        @@ (INCR :> "stats.Incr") @@ (DECR :> "stats.Decr")
        @@ (DEL :> "stats.Del") @@ (EXISTS :> "stats.Exists")
        @@ (GET :> "stats.Get") @@ (SET :> "stats.Set")
        @@ (SETNX :> "stats.SetNx")

\* The outcomes of calling the handler registered as h.
Invoke(h, arg, c, vals, ctrs) ==
    CASE h = "stats.Set"      -> {Set(arg, c, vals, ctrs)}
      [] h = "stats.SetNx"    -> {SetNx(arg, c, vals, ctrs)}
      [] h = "stats.Get"      -> {Get(arg, c, vals, ctrs)}
      [] h = "stats.Exists"   -> {Exists(arg, c, vals, ctrs)}
      [] h = "stats.Del"      -> {Del(arg, c, vals, ctrs)}
      [] h = "stats.Incr"     -> {Incr(arg, c, vals, ctrs)}
      [] h = "stats.Decr"     -> {Decr(arg, c, vals, ctrs)}
      [] h = "stats.Count"    -> {Count(arg, c, vals, ctrs)}
      [] h = "stats.Counters" -> {Counters(arg, c, vals, ctrs)}
      [] OTHER -> {Done(o, vals, ctrs) : o \in AnyHandler(arg, c)}

\* ----------------------------------------------------------------- registry
\* The stats backend's commands plus a command of another backend; the
\* second registry also holds an entry named QUIT.
Registries ==
    {StatsCommands @@ (PING :> "other.Ping"),
     StatsCommands @@ (PING :> "other.Ping") @@ (QUIT :> "other.Quit")}
\* Mutant of handleData: the registry is looked up before the name is
\* compared with QUIT.
handleData_LookupFirst(d, cmds) ==
    IF Len(d) = 0
    THEN [kind |-> "panic", h |-> "none", arg |-> [form |-> "bytes", elems |-> <<>>]]
    ELSE LET cmd == ToUpper(d[1])
             arg == [form |-> "bytes", elems |-> Tail(d)]
         IN  IF cmd \in DOMAIN cmds
             THEN [kind |-> "call", h |-> cmds[cmd], arg |-> arg]
             ELSE IF cmd = QUIT
                  THEN [kind |-> "quit", h |-> "none", arg |-> arg]
                  ELSE [kind |-> "notfound", h |-> "none", arg |-> arg]

\* --------------------------------------------------------------- handleData
\* handleData up to the handler call: what it decides from the payload.
\* data[1:] is a [][]byte, which is what the handler receives.
handleData(d, cmds) ==
    IF Len(d) = 0
    THEN [kind |-> "panic", h |-> "none", arg |-> [form |-> "bytes", elems |-> <<>>]]
    ELSE LET cmd == ToUpper(d[1])
             arg == [form |-> "bytes", elems |-> Tail(d)]
         IN  IF cmd = QUIT
             THEN [kind |-> "quit", h |-> "none", arg |-> arg]
             ELSE IF cmd \notin DOMAIN cmds
                  THEN [kind |-> "notfound", h |-> "none", arg |-> arg]
                  ELSE [kind |-> "call", h |-> cmds[cmd], arg |-> arg]
\* Mutant of ErrDisposition: any error ends the session as QUIT does.
ErrDisposition_ErrorEndsSession(err) ==
    IF err = NoErr THEN "continue" ELSE "quit"

\* Mutant of ErrDisposition: an error that is not errQuit is dropped.
ErrDisposition_SwallowsError(err) ==
    IF err = errQuit THEN "quit" ELSE "continue"

\* RunClient's disposition of the error handleData returned.
ErrDisposition(err) ==
    IF err = NoErr THEN "continue"
    ELSE IF err = errQuit THEN "quit"
    ELSE "report"
\* Mutant of ReadDisposition: a decode error returns as silently as EOF.
ReadDisposition_SilentOnError(err) ==
    IF err = NoErr THEN "handle" ELSE "return"

\* Mutant of ReadDisposition: io.EOF is reported like any other error.
ReadDisposition_ReportsEOF(err) ==
    IF err = NoErr THEN "handle" ELSE "report"

\* RunClient's disposition of the error ReadBulkPayload returned.
ReadDisposition(err) ==
    IF err = NoErr THEN "handle"
    ELSE IF err # EOF THEN "report"
    ELSE "return"

\* ----------------------------------------------------------------- sessions
NoInput == [k |-> "none", elems |-> <<>>]

NewSession ==
    [pc |-> "read", inp |-> NoInput, data |-> <<>>, perr |-> NoErr,
     client |-> NewClient, evs |-> <<>>, called |-> "none", hret |-> "none",
     herr |-> NoErr, closes |-> 0, how |-> "running"]

\* Mutant of Close: RunClient returns without the deferred client.Close().
Close_NotDeferred(st, why) == [st EXCEPT !.pc = "done", !.how = why]

\* client.Close() in the deferred function, after which RunClient is over.
Close(st, why) == [st EXCEPT !.pc = "done", !.closes = @ + 1, !.how = why]
\* Mutant of recover: the deferred function does not call recover().
recover_NotCalled(e) == NoErr

\* recover() in the deferred function: it takes over the panic value e, and
\* a panic it has taken over does not reach the runtime.
recover(e) == e
\* Mutant of AfterHandle: the QUIT branch lacks its return.
AfterHandle_QuitKeepsReading(st, err) ==
    CASE ErrDisposition(err) = "continue" ->
            [st EXCEPT !.pc = "read"]
      [] ErrDisposition(err) = "quit" ->
            [st EXCEPT !.client = Flush(WriteString(@, "OK")), !.pc = "read"]
      [] OTHER ->
            [st EXCEPT !.pc = "emit", !.perr = err]

\* Mutant of AfterHandle: an error is left to be reported later and the
\* loop reads on.
AfterHandle_ReadsBeforeReport(st, err) ==
    CASE ErrDisposition(err) = "continue" ->
            [st EXCEPT !.pc = "read"]
      [] ErrDisposition(err) = "quit" ->
            Close([st EXCEPT !.client = Flush(WriteString(@, "OK"))], "quit")
      [] OTHER ->
            [st EXCEPT !.pc = "read", !.perr = err]

\* The loop body after handleData returned err (lines 58-68), up to the
\* point where the event is sent.
AfterHandle(st, err) ==
    CASE ErrDisposition(err) = "continue" ->
            [st EXCEPT !.pc = "read"]
      [] ErrDisposition(err) = "quit" ->
            Close([st EXCEPT !.client = Flush(WriteString(@, "OK"))], "quit")
      [] OTHER ->
            [st EXCEPT !.pc = "emit", !.perr = err]

\* Mutant of AfterRead: the error of ReadBulkPayload is not looked at.
AfterRead_ErrorIgnored(st, in) ==
    LET r == ReadBulkPayload(in)
        fresh == [st EXCEPT !.inp = in, !.data = r.data, !.evs = <<>>,
                            !.called = "none", !.hret = "none",
                            !.herr = NoErr,
                            !.client = [@ EXCEPT !.sent = <<>>]]
    IN  IF r.panics
        THEN [fresh EXCEPT !.pc = "recover", !.perr = "decode panic"]
        ELSE [fresh EXCEPT !.pc = "dispatch"]

\* The loop body after ReadBulkPayload consumed input in (lines 49-55).
AfterRead(st, in) ==
    LET r == ReadBulkPayload(in)
        fresh == [st EXCEPT !.inp = in, !.data = r.data, !.evs = <<>>,
                            !.called = "none", !.hret = "none",
                            !.herr = NoErr,
                            !.client = [@ EXCEPT !.sent = <<>>]]
    IN  IF r.panics
        THEN [fresh EXCEPT !.pc = "recover", !.perr = "decode panic"]
        ELSE CASE ReadDisposition(r.err) = "handle" ->
                    [fresh EXCEPT !.pc = "dispatch"]
               [] ReadDisposition(r.err) = "report" ->
                    [fresh EXCEPT !.pc = "emit_read", !.perr = r.err]
               [] OTHER -> Close(fresh, "eof")

\* The state of a session after handleData(data, client) has run, the
\* handler call included, with o what the handler did.
AfterDispatch(st, r, o) ==
    IF r.kind = "panic"
    THEN [st EXCEPT !.pc = "recover", !.perr = "index out of range"]
    ELSE IF r.kind = "quit" THEN AfterHandle(st, errQuit)
    ELSE IF r.kind = "notfound" THEN AfterHandle(st, errCmdNotFound)
    ELSE LET ran == [st EXCEPT !.called = r.h, !.hret = o.ret,
                               !.herr = o.err, !.client = o.c]
         IN  IF o.ret = "panic"
             THEN [ran EXCEPT !.pc = "recover", !.perr = "handler panic"]
             ELSE AfterHandle(ran, o.err)

\* data, err := client.ReadBulkPayload()
Read(s) ==
    /\ ~crashed
    /\ sess[s].pc = "read"
    /\ \E in \in WireInputs : sess' = [sess EXCEPT ![s] = AfterRead(@, in)]
    /\ UNCHANGED <<Commands, call, events, crashed, memVars, lifeVars>>

\* The same read on a connection whose peer sends stats requests.
ReadStats(s) ==
    /\ ~crashed
    /\ sess[s].pc = "read"
    /\ \E in \in StatsInputs : sess' = [sess EXCEPT ![s] = AfterRead(@, in)]
    /\ UNCHANGED <<Commands, call, events, crashed, memVars, lifeVars>>

\* err = p.handleData(data, client), the handler call included.
Dispatch(s) ==
    /\ ~crashed
    /\ sess[s].pc = "dispatch"
    /\ LET st == sess[s]
           r  == handleData(st.data, Commands)
       IN  \E o \in (IF r.kind = "call"
                     THEN Invoke(r.h, r.arg, st.client, values, counters)
                     ELSE {Done(Returned(NoErr, st.client), values, counters)}) :
              /\ sess' = [sess EXCEPT ![s] = AfterDispatch(st, r, o)]
              /\ values' = o.vals
              /\ counters' = o.ctrs
    /\ UNCHANGED <<Commands, call, events, crashed, lifeVars>>

\* p.ctx.Events <- {"error", "accept error", err}; WriteError; Flush.
EmitAccept(s) ==
    /\ ~crashed
    /\ sess[s].pc = "emit"
    /\ CanSend
    /\ LET ev == Event("error", "accept error", sess[s].perr) IN
         /\ events' = Append(events, ev)
         /\ sess' = [sess EXCEPT ![s] =
                [@ EXCEPT !.evs = Append(@, ev),
                          !.client = Flush(WriteError(@, sess[s].perr)),
                          !.perr = NoErr,
                          !.pc = "read"]]
    /\ UNCHANGED <<Commands, call, crashed, memVars, lifeVars>>

\* p.ctx.Events <- {"error", "read error", err}; return; deferred Close.
EmitRead(s) ==
    /\ ~crashed
    /\ sess[s].pc = "emit_read"
    /\ CanSend
    /\ LET ev == Event("error", "read error", sess[s].perr) IN
         /\ events' = Append(events, ev)
         /\ sess' = [sess EXCEPT ![s] =
                Close([@ EXCEPT !.evs = Append(@, ev), !.perr = NoErr],
                      "readerr")]
    /\ UNCHANGED <<Commands, call, crashed, memVars, lifeVars>>

\* The deferred function after a panic: recover, send the fatal event,
\* then client.Close().  A panic that recover does not take over runs
\* client.Close() and then ends the process.
Recover(s) ==
    /\ ~crashed
    /\ sess[s].pc = "recover"
    /\ LET e  == recover(sess[s].perr)
           ev == Event("fatal", "client run panic", e)
       IN  IF e = NoErr
           THEN /\ crashed' = TRUE
                /\ sess' = [sess EXCEPT ![s] = Close(@, "crash")]
                /\ UNCHANGED events
           ELSE /\ CanSend
                /\ events' = Append(events, ev)
                /\ sess' = [sess EXCEPT ![s] =
                       Close([@ EXCEPT !.evs = Append(@, ev), !.perr = NoErr],
                             "panic")]
                /\ UNCHANGED crashed
    /\ UNCHANGED <<Commands, call, memVars, lifeVars>>

\* The data a caller can hand a handler as a []interface{}: up to two
\* elements, each a string (the key) or an int64.
Elems == {Str(KeyK), I64(2)}

IfaceArgs ==
    {[form |-> "iface", elems |-> e] :
        e \in {<<>>} \cup {<<x>> : x \in Elems}
                    \cup {<<x, y>> : x \in Elems, y \in Elems}}

\* The data handleData hands a handler: a [][]byte of raw arguments.
BytesArgs ==
    {[form |-> "bytes", elems |-> e] : e \in {<<>>, <<KeyK>>, <<KeyK, Two>>}}

NoCall ==
    [h |-> "none", arg |-> [form |-> "iface", elems |-> <<>>],
     ret |-> "none", err |-> NoErr, c |-> NewClient]

\* Every number the store holds lies within the bound of the model.
InBounds(m) == \A k \in DOMAIN m : m[k] \in -MaxVal..MaxVal

\* The handler registered as h runs on the data arg.
CallWith(h, arg) ==
    \E o \in Invoke(h, arg, NewClient, values, counters) :
       /\ InBounds(o.vals)
       /\ InBounds(o.ctrs)
       /\ values' = o.vals
       /\ counters' = o.ctrs
       /\ call' = [h |-> h, arg |-> arg, ret |-> o.ret, err |-> o.err,
                   c |-> o.c]

\* A registered handler of the stats backend is called: with a
\* []interface{}, the type its data parameter is asserted to, or with the
\* [][]byte handleData passes.
Call ==
    /\ ~crashed
    /\ \E n \in DOMAIN StatsCommands :
          \/ \E arg \in IfaceArgs : CallWith(Commands[n], arg)
          \/ \E arg \in BytesArgs : CallWith(Commands[n], arg)
    /\ UNCHANGED <<Commands, sess, events, crashed, lifeVars>>

\* The external sink takes one event off the channel.
SinkReceive ==
    /\ ~crashed
    /\ events # <<>>
    /\ events' = Tail(events)
    /\ UNCHANGED <<Commands, call, sess, crashed, memVars, lifeVars>>

\* ---------------------------------------------------------------- lifecycle
\* Every Load makes a new quit channel and a new ticker and starts a new
\* goroutine; generation g names the channels the g-th Load made and task g
\* the goroutine it started.  Generation 0 stands for the nil channels of a
\* backend that was never loaded.  stats.quit and stats.timer are the
\* channels of generation cur.
\*
\* The goroutine loops on a select over stats.timer.C and stats.quit, and
\* reads both fields anew each time it enters the select.  Load writes them
\* without synchronisation, so a goroutine may read either field as any
\* Load since its own start left it.  A select entered with a case ready
\* takes one of the ready cases, chosen at random; entered with none ready
\* it parks the goroutine on the two channels it read, and the first tick
\* or the close that follows on them is handed to it and decides the case.
\* task[i].pc is "none", "loop" (about to enter the select), "parked",
\* "gotTick" (tick case taken, FlushCounters not yet called), "gotQuit"
\* (quit case taken) or "done"; task[i].q and task[i].t are the quit
\* channel and the ticker of its last select.

NoTask == [pc |-> "none", q |-> 0, t |-> 0]

\* The generations task i can read stats.quit or stats.timer as.
Readable(i) == i..cur

\* FlushCounters: every counter is reset for the next interval.
FlushCounters(ctrs) == [k \in DOMAIN ctrs |-> 0]

\* Load: stats.quit = make(chan struct{}); stats.timer = time.NewTicker(..);
\* go func() { for { select ... } }().
Load ==
    /\ ~crashed
    /\ cur < MaxLoads
    /\ cur' = cur + 1
    /\ quit' = [quit EXCEPT ![cur + 1] = "open"]
    /\ timer' = [timer EXCEPT ![cur + 1] = "running"]
    /\ tickC' = [tickC EXCEPT ![cur + 1] = FALSE]
    /\ task' = [task EXCEPT ![cur + 1] = [pc |-> "loop", q |-> 0, t |-> 0]]
    /\ UNCHANGED <<Commands, call, sess, events, crashed, memVars>>

\* Unload: close(stats.quit); return.  The close wakes every goroutine
\* parked on that channel into its quit case.  close of a nil channel or of
\* a closed channel panics in the caller, the host: it recovers the panic
\* or the process dies.
Unload ==
    /\ ~crashed
    /\ IF quit[cur] = "open"
       THEN /\ quit' = [quit EXCEPT ![cur] = "closed"]
            /\ task' = [i \in Tasks |->
                          IF task[i].pc = "parked" /\ task[i].q = cur
                          THEN [task[i] EXCEPT !.pc = "gotQuit"]
                          ELSE task[i]]
            /\ UNCHANGED crashed
       ELSE /\ crashed' \in BOOLEAN
            /\ UNCHANGED <<quit, task>>
    /\ UNCHANGED <<Commands, call, sess, events, memVars, cur, timer, tickC>>

\* The host's use of the backend: Load once at startup.
HostLoad == cur = 0 /\ Load

\* The host's use of the backend: Unload once, after Load.
HostUnload == quit[cur] = "open" /\ Unload

\* The running ticker of generation g fires: the tick goes to a goroutine
\* parked on it, or into the one-slot buffer of its channel (a tick that
\* finds the buffer full is dropped).
Tick(g) ==
    /\ ~crashed
    /\ timer[g] = "running"
    /\ LET waiting == {i \in Tasks : task[i].pc = "parked" /\ task[i].t = g}
       IN  IF waiting # {}
           THEN /\ \E i \in waiting :
                      task' = [task EXCEPT ![i].pc = "gotTick"]
                /\ UNCHANGED tickC
           ELSE /\ ~tickC[g]
                /\ tickC' = [tickC EXCEPT ![g] = TRUE]
                /\ UNCHANGED task
    /\ UNCHANGED <<Commands, call, sess, events, crashed, memVars, cur, quit, timer>>

\* select entered with a tick buffered: case <-stats.timer.C.
SelectTick(i) ==
    /\ ~crashed
    /\ task[i].pc = "loop"
    /\ \E gq, gt \in Readable(i) :
          /\ tickC[gt]
          /\ tickC' = [tickC EXCEPT ![gt] = FALSE]
          /\ task' = [task EXCEPT ![i] = [pc |-> "gotTick", q |-> gq, t |-> gt]]
    /\ UNCHANGED <<Commands, call, sess, events, crashed, memVars, cur, quit, timer>>

\* select entered with stats.quit closed: case <-stats.quit.
SelectQuit(i) ==
    /\ ~crashed
    /\ task[i].pc = "loop"
    /\ \E gq, gt \in Readable(i) :
          /\ quit[gq] = "closed"
          /\ task' = [task EXCEPT ![i] = [pc |-> "gotQuit", q |-> gq, t |-> gt]]
    /\ UNCHANGED <<Commands, call, sess, events, crashed, memVars, cur, quit, timer,
                   tickC>>

\* select entered with no case ready: the goroutine parks.
SelectPark(i) ==
    /\ ~crashed
    /\ task[i].pc = "loop"
    /\ \E gq, gt \in Readable(i) :
          /\ ~tickC[gt]
          /\ quit[gq] # "closed"
          /\ task' = [task EXCEPT ![i] = [pc |-> "parked", q |-> gq, t |-> gt]]
    /\ UNCHANGED <<Commands, call, sess, events, crashed, memVars, cur, quit, timer,
                   tickC>>

\* stats.mem.FlushCounters() is called and the loop is back at its select.
TaskFlush(i) ==
    /\ ~crashed
    /\ task[i].pc = "gotTick"
    /\ counters' = FlushCounters(counters)
    /\ task' = [task EXCEPT ![i].pc = "loop"]
    /\ UNCHANGED <<Commands, call, sess, events, crashed, values, cur, quit, timer,
                   tickC>>

\* Mutant of TaskStop: the quit case stops the ticker but lacks its return.
TaskStop_NoReturn(i) ==
    /\ ~crashed
    /\ task[i].pc = "gotQuit"
    /\ \E gt \in Readable(i) : timer' = [timer EXCEPT ![gt] = "stopped"]
    /\ task' = [task EXCEPT ![i].pc = "loop"]
    /\ UNCHANGED <<Commands, call, sess, events, crashed, memVars, cur, quit, tickC>>

\* The quit case: stats.timer.Stop(); return.  stats.timer is read again.
TaskStop(i) ==
    /\ ~crashed
    /\ task[i].pc = "gotQuit"
    /\ \E gt \in Readable(i) : timer' = [timer EXCEPT ![gt] = "stopped"]
    /\ task' = [task EXCEPT ![i].pc = "done"]
    /\ UNCHANGED <<Commands, call, sess, events, crashed, memVars, cur, quit, tickC>>

\* ------------------------------------------------------------ specification
Init ==
    /\ Commands \in Registries
    /\ sess = [s \in Sessions |-> NewSession]
    /\ events = <<>>
    /\ crashed = FALSE
    /\ values = <<>>
    /\ counters = <<>>
    /\ cur = 0
    /\ quit = [g \in Gens |-> "nil"]
    /\ timer = [g \in Gens |-> "nil"]
    /\ tickC = [g \in Gens |-> FALSE]
    /\ task = [i \in Tasks |-> NoTask]
    /\ call = NoCall

SessionStep(s) ==
    Read(s) \/ Dispatch(s) \/ EmitAccept(s) \/ EmitRead(s) \/ Recover(s)

\* The sessions and the event sink.
SessionNext ==
    \/ \E s \in Sessions : SessionStep(s)
    \/ SinkReceive

\* The steps of the tickers and of the background goroutines.
TaskNext ==
    \/ \E g \in Tasks : Tick(g)
    \/ \E i \in Tasks : SelectTick(i)
    \/ \E i \in Tasks : SelectQuit(i)
    \/ \E i \in Tasks : SelectPark(i)
    \/ \E i \in Tasks : TaskFlush(i)
    \/ \E i \in Tasks : TaskStop(i)

\* The backend's lifecycle as the host drives it, beside one connection.
LifeNext ==
    \/ HostLoad
    \/ HostUnload
    \/ TaskNext
    \/ SessionStep(1)
    \/ SinkReceive

\* The backend's lifecycle under any sequence of Load and Unload calls.
CycleNext ==
    \/ Load
    \/ Unload
    \/ TaskNext

\* Connections whose peers send requests for the stats commands.
StatsNext ==
    \/ \E s \in Sessions : ReadStats(s)
    \/ \E s \in Sessions : Dispatch(s)

\* The stats handlers, called on every kind of data.
HandlerNext == Call

Next == SessionNext \/ LifeNext \/ CycleNext \/ StatsNext \/ HandlerNext

Spec == Init /\ [][Next]_vars

SessionSpec == Init /\ [][SessionNext]_vars

LifeSpec == Init /\ [][LifeNext]_vars

CycleSpec == Init /\ [][CycleNext]_vars

StatsSpec == Init /\ [][StatsNext]_vars

HandlerSpec == Init /\ [][HandlerNext]_vars

\* Fairness for the background task: the scheduler runs a goroutine that can
\* run (WF on the steps it has committed to), and a select picks uniformly
\* at random among the cases that are ready, so a quit case that is ready
\* again and again is taken (SF).
LifeLive ==
    /\ LifeSpec
    /\ \A i \in Tasks : WF_vars(TaskFlush(i))
    /\ \A i \in Tasks : WF_vars(TaskStop(i))
    /\ \A i \in Tasks : SF_vars(SelectQuit(i))

\* ------------------------------------------------------------------- claims
Stepped(s) == sess'[s] # sess[s]

Others(s) == \A o \in Sessions \ {s} : sess'[o] = sess[o]

\* The handler each command name sent in lower case must reach.
RegisteredAs(name) ==
    IF name = <<103, 101, 116>> THEN "stats.Get"
    ELSE IF name = <<112, 105, 110, 103>> THEN "other.Ping"
    ELSE "none"

Flushed(reply) == [buf |-> <<>>, sent |-> <<reply>>]

\* C1: a request naming a command that is neither QUIT nor registered gets
\* no handler call; RunClient reports errCmdNotFound, writes and flushes
\* exactly one error reply, and is back at its read with the connection
\* open; the frame read next is dispatched, and a registered name in it
\* has its handler invoked.
C1_UnknownCommandKeepsRunning ==
    [][\A s \in Sessions :
        /\ (sess[s].pc = "dispatch" /\ sess[s].data[1] = FOO /\ Stepped(s)) =>
              /\ sess'[s].pc = "emit"
              /\ sess'[s].perr = errCmdNotFound
              /\ sess'[s].called = "none"
              /\ sess'[s].client = NewClient
              /\ sess'[s].closes = 0
        /\ (sess[s].pc = "emit" /\ sess[s].perr = errCmdNotFound /\ Stepped(s)) =>
              /\ sess'[s].pc = "read"
              /\ sess'[s].client = Flushed(ErrReply(errCmdNotFound))
              /\ sess'[s].closes = 0
        /\ (/\ sess[s].pc = "read"
            /\ sess[s].client = Flushed(ErrReply(errCmdNotFound))
            /\ Stepped(s)
            /\ sess'[s].inp.k = "frame"
            /\ Len(sess'[s].inp.elems) > 0) =>
              /\ sess'[s].pc = "dispatch"
              /\ sess'[s].data = sess'[s].inp.elems
        /\ (/\ sess[s].pc = "dispatch"
            /\ RegisteredAs(sess[s].data[1]) # "none"
            /\ Stepped(s)) =>
              sess'[s].called = RegisteredAs(sess[s].data[1])
      ]_vars

C1_Witness ==
    \E s \in Sessions :
        /\ sess[s].pc = "read"
        /\ sess[s].data = <<FOO>>
        /\ sess[s].client = Flushed(ErrReply(errCmdNotFound))
        /\ sess[s].closes = 0

\* C2: a request whose first element upper-cases to QUIT makes the session
\* write the simple string "OK", flush it, and end with the connection
\* closed; a session that has ended never reads or does anything again.
C2_QuitAcknowledgedThenClosed ==
    [][\A s \in Sessions :
        /\ (/\ sess[s].pc = "dispatch"
            /\ sess[s].data[1] \in QuitSpellings
            /\ Stepped(s)) =>
              /\ sess'[s].client = Flushed(StrReply("OK"))
              /\ sess'[s].pc = "done"
              /\ sess'[s].closes = 1
        /\ sess[s].pc = "done" => sess'[s] = sess[s]
      ]_vars

C2_Witness ==
    \E s \in Sessions :
        /\ sess[s].pc = "done"
        /\ sess[s].how = "quit"
        /\ sess[s].data = <<<<113, 117, 105, 116>>>>
        /\ sess[s].closes = 1

\* C3: whatever the registry holds (an entry named QUIT included) and in
\* whatever letter case QUIT is sent, once the request is handled no handler
\* was invoked, no event was sent, and the one reply flushed is "OK".
C3_QuitInterceptedBeforeLookup ==
    \A s \in Sessions :
        (/\ sess[s].data # <<>>
         /\ sess[s].data[1] \in QuitSpellings
         /\ sess[s].pc # "dispatch") =>
            /\ sess[s].pc = "done"
            /\ sess[s].how = "quit"
            /\ sess[s].called = "none"
            /\ sess[s].evs = <<>>
            /\ sess[s].client = Flushed(StrReply("OK"))

C3_Witness ==
    /\ QUIT \in DOMAIN Commands
    /\ \E s \in Sessions :
          /\ sess[s].data = <<<<81, 117, 73, 116>>>>
          /\ sess[s].how = "quit"

\* C4: a decode error other than end-of-stream makes the session send
\* exactly one event, of level error, write nothing to the client and end
\* with the connection closed once; the step changes no other session.
C4_DecodeErrorClosesSilently ==
    /\ [](\A s \in Sessions :
            sess[s].inp.k = "malformed" =>
               \/ /\ sess[s].pc = "emit_read"
                  /\ sess[s].perr = ErrProtocol
                  /\ sess[s].evs = <<>>
                  /\ sess[s].client = NewClient
                  /\ sess[s].closes = 0
               \/ /\ sess[s].pc = "done"
                  /\ sess[s].how = "readerr"
                  /\ sess[s].evs = <<Event("error", "read error", ErrProtocol)>>
                  /\ sess[s].client = NewClient
                  /\ sess[s].closes = 1)
    /\ [][\A s \in Sessions :
            (sess[s].pc = "emit_read" /\ Stepped(s)) =>
               /\ events' = Append(events, Event("error", "read error", ErrProtocol))
               /\ Others(s)
               /\ ~crashed'
         ]_vars

C4_Witness ==
    \E s, o \in Sessions :
        /\ sess[s].inp.k = "malformed"
        /\ sess[s].how = "readerr"
        /\ sess[o].how = "running"
        /\ sess[o].called # "none"

\* C5: on end-of-stream the session ends with the connection closed once,
\* having sent no event and written no reply.
C5_EndOfStreamIsSilent ==
    /\ [](\A s \in Sessions :
            sess[s].inp.k = "eof" =>
               /\ sess[s].pc = "done"
               /\ sess[s].how = "eof"
               /\ sess[s].evs = <<>>
               /\ sess[s].client = NewClient
               /\ sess[s].closes = 1)
    /\ [][\A s \in Sessions :
            (sess[s].pc = "read" /\ Stepped(s) /\ sess'[s].inp.k = "eof") =>
               events' = events
         ]_vars

C5_Witness ==
    \E s \in Sessions : sess[s].inp.k = "eof" /\ sess[s].how = "eof"

\* C6: a panic during decode or dispatch of a session is recovered in that
\* session: the process does not die, the session sends exactly one fatal
\* event and closes its connection once, and no other session changes.
C6_PanicContained ==
    /\ [](~crashed)
    /\ [](\A s \in Sessions :
            (sess[s].inp.k = "fault" \/ sess[s].hret = "panic") =>
               \/ /\ sess[s].pc = "recover"
                  /\ sess[s].evs = <<>>
                  /\ sess[s].closes = 0
               \/ /\ sess[s].pc = "done"
                  /\ sess[s].how = "panic"
                  /\ Len(sess[s].evs) = 1
                  /\ sess[s].evs[1].level = "fatal"
                  /\ sess[s].evs[1].msg = "client run panic"
                  /\ sess[s].closes = 1)
    /\ [][\A s \in Sessions :
            (sess[s].pc = "recover" /\ Stepped(s)) =>
               /\ Len(events') = Len(events) + 1
               /\ events'[Len(events')].level = "fatal"
               /\ Others(s)
         ]_vars

C6_Witness ==
    \E s, o \in Sessions :
        /\ sess[s].hret = "panic"
        /\ sess[s].how = "panic"
        /\ sess[o].how = "running"
        /\ sess[o].called # "none"

\* C7: when the handler a request reached returned an error, the session
\* sends one error event carrying it, writes and flushes one error reply
\* built from it, and is back at its read with the connection open.
C7_HandlerErrorReportedTwice ==
    \A s \in Sessions :
        sess[s].hret = "err" =>
           \/ /\ sess[s].pc = "emit"
              /\ sess[s].perr = sess[s].herr
              /\ sess[s].evs = <<>>
              /\ sess[s].client = NewClient
              /\ sess[s].closes = 0
           \/ /\ sess[s].pc = "read"
              /\ sess[s].how = "running"
              /\ sess[s].evs = <<Event("error", "accept error", sess[s].herr)>>
              /\ sess[s].client = Flushed(ErrReply(sess[s].herr))
              /\ sess[s].closes = 0

C7_Witness ==
    \E s \in Sessions :
        /\ sess[s].hret = "err"
        /\ sess[s].herr = ErrHandler
        /\ sess[s].pc = "read"

\* C8: a session that holds a decoded request it has neither answered nor
\* closed can take its next step whatever the event sink does, so that the
\* reply or the close never waits for the sink.
C8_NeverWaitsForSink ==
    \A s \in Sessions :
        (\/ sess[s].pc \in {"dispatch", "emit"}
         \/ sess[s].pc = "recover" /\ sess[s].hret = "panic") =>
            ENABLED SessionStep(s)

\* C9: once Unload has returned (stats.quit is closed) the background task
\* makes no call of FlushCounters.
C9_NoFlushAfterUnload ==
    [][quit[cur] = "closed" =>
          \A i \in Tasks : ~(task[i].pc = "gotTick" /\ task'[i].pc = "loop")
      ]_vars

\* C10: once Unload has closed stats.quit the background task sooner or
\* later takes the quit case, stops its ticker and returns, even while
\* ticks keep arriving.
C10_TaskEndsAfterUnload ==
    \A i \in Tasks :
        (quit[i] = "closed") ~> (task[i].pc = "done" /\ timer[i] = "stopped")

C10_Witness ==
    \E i \in Tasks :
        /\ quit[i] = "closed"
        /\ task[i].pc = "done"
        /\ timer[i] = "stopped"
        /\ tickC[i]

\* A goroutine of Load that has started and has not returned.
Live(i) == task[i].pc \notin {"none", "done"}

\* C11: whatever sequence of Load and Unload calls the backend gets, it
\* never has two live background tasks, and it has exactly one while it is
\* loaded (stats.quit open).
C11_OneFlushTask ==
    /\ Cardinality({i \in Tasks : Live(i)}) <= 1
    /\ quit[cur] = "open" => Cardinality({i \in Tasks : Live(i)}) = 1

\* ---------------------------------------------------- claims on the backend
\* The command a request names, and the delta the decimal digit of its
\* second argument stands for (1 without it).
Cmd(d) == ToUpper(d[1])

RequestDelta(d) == IF Len(d) >= 3 THEN d[3][1] - 48 ELSE 1

\* Session s handles the request it holds in this step.
Handling(s) == sess[s].pc = "dispatch" /\ Stepped(s)

\* C12: every INCR key [d] request a connection sends adds d (1 without d)
\* to the stored value of key and every DECR key [d] subtracts it, each in
\* one step, so that under every interleaving of the connections the final
\* value is the initial one plus the INCR deltas minus the DECR deltas.
C12_IncrDecrSumExact ==
    [][\A s \in Sessions :
         (/\ Handling(s)
          /\ Len(sess[s].data) >= 2
          /\ Cmd(sess[s].data) \in {INCR, DECR}) =>
            Lookup(values', sess[s].data[2]) =
               IF Cmd(sess[s].data) = INCR
               THEN Lookup(values, sess[s].data[2]) + RequestDelta(sess[s].data)
               ELSE Lookup(values, sess[s].data[2]) - RequestDelta(sess[s].data)
      ]_vars

\* C13: every COUNT key [d] request adds d to the counter of key in one
\* step, and only such a request or a flush changes the counters: what the
\* flushes capture plus what remains is the sum of the deltas issued.
C13_CountNotLostAtFlush ==
    [][/\ \A s \in Sessions :
            (/\ Handling(s)
             /\ Len(sess[s].data) >= 2
             /\ Cmd(sess[s].data) = COUNT) =>
               Lookup(counters', sess[s].data[2]) =
                  Lookup(counters, sess[s].data[2]) + RequestDelta(sess[s].data)
       /\ counters' # counters =>
            \/ \E i \in Tasks : task[i].pc = "gotTick" /\ task'[i].pc = "loop"
            \/ \E s \in Sessions : Handling(s) /\ Cmd(sess[s].data) = COUNT
      ]_vars

\* C14: SETNX key v on an absent key stores v and replies 1; on a key that
\* is present it leaves the value and replies 0; so of two connections that
\* send SETNX for the same absent key one is answered 1 and its value is
\* the one stored.
C14_SetNxWritesOnlyIfAbsent ==
    [][\A s \in Sessions :
         (/\ Handling(s)
          /\ Len(sess[s].data) >= 3
          /\ Cmd(sess[s].data) = SETNX) =>
            IF sess[s].data[2] \in DOMAIN values
            THEN /\ values' = values
                 /\ sess'[s].client = Flushed(IntReply(0))
            ELSE /\ values' = Put(values, sess[s].data[2],
                                  RequestDelta(sess[s].data))
                 /\ sess'[s].client = Flushed(IntReply(1))
      ]_vars

\* The number of arguments each stats command requires, and the error it
\* writes when it gets fewer.
Required(h) ==
    CASE h \in {"stats.Set", "stats.SetNx"} -> 2
      [] h = "stats.Counters" -> 0
      [] OTHER -> 1

ArityMessage(h) ==
    CASE h = "stats.Set"    -> ErrSetArity
      [] h = "stats.SetNx"  -> ErrSetNxArity
      [] h = "stats.Get"    -> ErrGetArity
      [] h = "stats.Exists" -> ErrExistsArity
      [] h = "stats.Del"    -> ErrDelArity
      [] h = "stats.Incr"   -> ErrIncrArity
      [] h = "stats.Decr"   -> ErrDecrArity
      [] OTHER              -> ErrCountArity

\* C15: a stats command called with fewer arguments than it requires
\* writes and flushes its arity error, leaves values and counters as they
\* were and returns nil, on which RunClient goes on reading with the
\* connection open.
C15_TooFewArgumentsRejected ==
    [][Len(call'.arg.elems) < Required(call'.h) =>
          /\ call'.ret = "nil"
          /\ call'.err = NoErr
          /\ call'.c = Flushed(ErrReply(ArityMessage(call'.h)))
          /\ values' = values
          /\ counters' = counters
          /\ ErrDisposition(call'.err) = "continue"
          /\ AfterHandle(NewSession, call'.err).pc = "read"
          /\ AfterHandle(NewSession, call'.err).closes = 0
      ]_vars

C15_Witness ==
    /\ call.h = "stats.Set"
    /\ call.arg.form = "iface"
    /\ Len(call.arg.elems) = 1
    /\ call.c = Flushed(ErrReply(ErrSetArity))
    /\ KeyK \in DOMAIN values

\* A []interface{} whose key is no string or whose number is no int64, or
\* data that is no []interface{} at all.
TypeProblem(arg) ==
    \/ arg.form # "iface"
    \/ ~IsString(arg.elems[1])
    \/ Len(arg.elems) >= 2 /\ ~IsInt64(arg.elems[2])

\* C16: SET, SETNX, INCR, DECR or COUNT called with enough arguments of
\* which one has not the expected type writes an error reply, leaves the
\* store as it was and returns without a panic, so that the connection
\* stays open.
C16_TypeProblemFailsClosed ==
    [][(/\ call'.h \in {"stats.Set", "stats.SetNx", "stats.Incr",
                        "stats.Decr", "stats.Count"}
        /\ Len(call'.arg.elems) >= Required(call'.h)
        /\ TypeProblem(call'.arg)) =>
          /\ call'.ret = "nil"
          /\ Len(call'.c.sent) = 1
          /\ call'.c.sent[1].t = "err"
          /\ call'.c.buf = <<>>
          /\ values' = values
          /\ counters' = counters
      ]_vars

\* ------------------------------------------------- claims on the session loop
\* C17: a session reads a request only when the one before it is done with
\* (no error left to report, nothing written and not flushed, the error
\* reply of a failed request sent), it holds that request unchanged until
\* it is back at its read, and it dispatches exactly the request it read.
C17_OneRequestAtATime ==
    /\ [](\A s \in Sessions :
            sess[s].pc = "dispatch" =>
               /\ sess[s].inp.k = "frame"
               /\ sess[s].data = sess[s].inp.elems
               /\ sess[s].called = "none"
               /\ sess[s].client = NewClient
               /\ sess[s].evs = <<>>)
    /\ [][\A s \in Sessions :
            /\ (sess[s].pc = "read" /\ Stepped(s)) =>
                  /\ sess[s].perr = NoErr
                  /\ sess[s].client.buf = <<>>
                  /\ sess[s].hret = "err" =>
                        sess[s].client.sent = <<ErrReply(sess[s].herr)>>
            /\ sess[s].pc # "read" =>
                  /\ sess'[s].inp = sess[s].inp
                  /\ sess'[s].data = sess[s].data
         ]_vars

C17_Witness ==
    \E s \in Sessions :
        /\ sess[s].pc = "dispatch"
        /\ sess[s].data = <<<<112, 105, 110, 103>>>>
        /\ events = <<Event("error", "accept error", errCmdNotFound)>>
        /\ \A o \in Sessions \ {s} : sess[o] = NewSession

C19_ExactlyOneReply ==
    \A s \in Sessions :
        /\ (/\ sess[s].data # <<>>
            /\ sess[s].pc \in {"read", "done"}
            /\ sess[s].hret # "panic") =>
              /\ Len(sess[s].client.sent) = 1
              /\ sess[s].client.buf = <<>>
              /\ sess[s].hret = "nil" => sess[s].evs = <<>>
              /\ sess[s].hret = "err" =>
                    sess[s].client.sent = <<ErrReply(sess[s].herr)>>
              /\ (sess[s].called = "none" /\ sess[s].how # "quit") =>
                    sess[s].client.sent = <<ErrReply(errCmdNotFound)>>
              /\ sess[s].how = "quit" =>
                    sess[s].client.sent = <<StrReply("OK")>>
        /\ sess[s].pc = "emit" => sess[s].client = NewClient

C19_Witness ==
    \E s, o \in Sessions :
        /\ sess[s].pc = "read"
        /\ sess[s].called = "stats.Count"
        /\ sess[s].client = Flushed(ErrReply(ErrCountArity))
        /\ sess[o].pc = "read"
        /\ sess[o].hret = "err"
        /\ sess[o].client = Flushed(ErrReply(ErrHandler))

\* C20: however RunClient ends (end of stream, read error, QUIT, panic),
\* client.Close() has run exactly once, it has not run while the session is
\* still going, and a session that has ended reads, calls and writes
\* nothing more.
C20_ClosedOnceThenSilent ==
    /\ [](\A s \in Sessions :
            /\ sess[s].pc = "done" =>
                  /\ sess[s].closes = 1
                  /\ sess[s].how \in {"eof", "readerr", "quit", "panic"}
            /\ sess[s].pc # "done" =>
                  /\ sess[s].closes = 0
                  /\ sess[s].how = "running")
    /\ [][\A s \in Sessions :
            /\ sess[s].pc = "done" => ~Stepped(s)
            /\ sess'[s].closes \in {sess[s].closes, sess[s].closes + 1}
         ]_vars

C20_Witness ==
    \E s, o \in Sessions :
        /\ sess[s].pc = "done"
        /\ sess[s].how = "panic"
        /\ sess[s].closes = 1
        /\ sess[o].pc = "done"
        /\ sess[o].how = "eof"
        /\ sess[o].closes = 1

====
